---- MODULE Spec2Model ----
(***************************************************************************)
(* Model of the client-timing transport (package clienttiming).           *)
(*                                                                         *)
(* A Timer holds the configuration; Timer.Transport binds a copy of it to  *)
(* the servertiming.Header of the incoming request.  Every outbound call   *)
(* runs transport.RoundTrip, which appends one metric to the header and    *)
(* prepends the metrics parsed from the response's Server-Timing header.   *)
(*                                                                         *)
(* Strings the code transforms are sequences of one-character strings.     *)
(* Pointers are small integers: a *http.Response is the number of the call *)
(* that received it (0 is nil); a *servertiming.Metric is a pair <<c, i>>, *)
(* i = 0 for the metric created by call c and i >= 1 for the i-th metric   *)
(* parsed from the response of call c.                                     *)
(***************************************************************************)
EXTENDS Integers, Sequences, FiniteSets, TLC

\* Number of RoundTrip invocations in a behaviour.
MaxCalls == 2

Calls == 1..MaxCalls

KeySource == "source"

HeaderKey == "Server-Timing"

\* The nil error.
NilErr == "nil"

\* The nil *http.Response.
NilResp == 0

EmptyMap == [k \in {} |-> <<>>]

Range(s) == {s[i] : i \in 1..Len(s)}

----------------------------------------------------------------------------
(* Inputs *)

\* A context that carries no servertiming.Header.
Background == "background"

\* The nil *servertiming.Header.
NilHeader == "nil"

\* The headers of two incoming requests. A context that carries a header
\* is written as that header.
Headers == {"h", "h2"}

\* servertiming.FromContext
FromContext(ctx) == IF ctx \in Headers THEN ctx ELSE NilHeader

\* Path, RawQuery and User are the fields of req.URL, Ctx is req.Context().
ReqGolang ==
    [Host |-> <<"g", ":", "8", ":">>, Method |-> <<"G", "E", "T">>, Path |-> <<>>,
     RawQuery |-> <<>>, User |-> <<>>, Ctx |-> Background]

ReqApi ==
    [Host |-> <<"a">>, Method |-> <<"P", "U", "T">>, Path |-> <<"/", "v">>,
     RawQuery |-> <<>>, User |-> <<>>, Ctx |-> Background]

Requests == {ReqGolang, ReqApi}

\* The host of ReqGolang asked for another path, with a query and credentials.
ReqGolangPrivate ==
    [Host |-> <<"g", ":", "8", ":">>, Method |-> <<"G", "E", "T">>, Path |-> <<"/", "v">>,
     RawQuery |-> <<"k">>, User |-> <<"u">>, Ctx |-> Background]

\* The path of ReqGolangPrivate on another host.
ReqOther ==
    [Host |-> <<"o", ":">>, Method |-> <<"G", "E", "T">>, Path |-> <<"/", "v">>,
     RawQuery |-> <<"k">>, User |-> <<"u">>, Ctx |-> Background]

\* ReqGolang sent with the context of the second incoming request.
ReqBound == [ReqGolang EXCEPT !.Ctx = "h2"]

NamingRequests == Requests \cup {ReqGolangPrivate, ReqOther}

\* Segments of a Server-Timing header value as they travel on the wire.
SegX ==
    [bad |-> FALSE, name |-> <<"x">>,
     params |-> [k \in {"desc", "status"} |->
                   IF k = "desc" THEN <<"P">> ELSE <<"2", "0", "1">>]]

SegY ==
    [bad |-> FALSE, name |-> <<"x">>,
     params |-> [k \in {"desc", "status"} |->
                   IF k = "desc" THEN <<"G">> ELSE <<"4", "0", "4">>]]

SegZ ==
    [bad |-> FALSE, name |-> <<"z">>, params |-> [k \in {"source"} |-> <<"s">>]]

\* A segment the header parser rejects.
SegBad == [bad |-> TRUE, name |-> <<>>, params |-> EmptyMap]

RespPlain == [StatusCode |-> 200, Header |-> EmptyMap]

RespNested == [StatusCode |-> 200, Header |-> [k \in {HeaderKey} |-> <<SegX, SegY>>]]

RespMalformed == [StatusCode |-> 404, Header |-> [k \in {HeaderKey} |-> <<SegX, SegBad>>]]

RespPartial == [StatusCode |-> 503, Header |-> [k \in {HeaderKey} |-> <<SegZ>>]]

\* What the inner round tripper may hand back: (response, error).
Outcomes ==
    { [hasResp |-> TRUE,  response |-> RespPlain,     err |-> NilErr],
      [hasResp |-> TRUE,  response |-> RespNested,    err |-> NilErr],
      [hasResp |-> TRUE,  response |-> RespMalformed, err |-> NilErr],
      [hasResp |-> FALSE, response |-> RespPlain,     err |-> "ErrFailed"],
      [hasResp |-> TRUE,  response |-> RespPartial,   err |-> "ErrTimeout"] }

\* error.Error()
ErrorText(e) ==
    IF e = "ErrFailed" THEN <<"f", "a", "i", "l", "e", "d">> ELSE <<"t", "i", "m", "e">>

NameN == <<"n">>

NameO == <<"o">>

Surprise == <<"s", "u", "r">>

\* The nil func value and the nil http.RoundTripper.
NilFunc == "nil"

----------------------------------------------------------------------------
(* Pure functions of http.go and timer.go *)

\* strings.Replace(s, old, new, -1) for one-character old and new.
Replace(s, old, new) == [i \in 1..Len(s) |-> IF s[i] = old THEN new ELSE s[i]]

\* DefaultMetric naming the entry after the whole URL.
DefaultMetricURL(r) == Replace(r.User \o r.Host \o r.Path \o r.RawQuery, ":", ".")

DefaultMetric(r) == Replace(r.Host, ":", ".")

DefaultDesc(r) == r.Method \o <<" ">> \o r.Path

DigitChar(d) == <<"0", "1", "2", "3", "4", "5", "6", "7", "8", "9">>[d + 1]

RECURSIVE Digits(_)
Digits(n) == IF n < 10 THEN <<DigitChar(n)>> ELSE Digits(n \div 10) \o <<DigitChar(n % 10)>>

\* Itoa keeping the last digit only.
ItoaLastDigit(n) == IF n < 0 THEN <<"-">> \o Digits((0 - n) % 10) ELSE Digits(n % 10)

\* strconv.Itoa
Itoa(n) == IF n < 0 THEN <<"-">> \o Digits(0 - n) ELSE Digits(n)

\* m.Extra[k] = v
SetExtra(m, k, v) ==
    [m EXCEPT !.Extra = [x \in DOMAIN m.Extra \cup {k} |-> IF x = k THEN v ELSE m.Extra[x]]]

\* DefaultUpdate storing the error text under another key.
DefaultUpdateWrongKey(m, r, e) ==
    IF e # NilErr
    THEN SetExtra(m, "err", ErrorText(e))
    ELSE SetExtra(m, "code", Itoa(r.StatusCode))

DefaultUpdate(m, r, e) ==
    IF e # NilErr
    THEN SetExtra(m, "error", ErrorText(e))
    ELSE SetExtra(m, "code", Itoa(r.StatusCode))

WithName(n) == [opt |-> "WithName", val |-> n]

WithTransport(inner) == [opt |-> "WithTransport", val |-> inner]

WithMetric(metric) == [opt |-> "WithMetric", val |-> metric]

WithDesc(desc) == [opt |-> "WithDesc", val |-> desc]

WithUpdate(update) == [opt |-> "WithUpdate", val |-> update]

\* opt(t): what calling an Option on a *Timer does to it.
ApplyOption(t, o) ==
    IF o.opt = "WithName" THEN [t EXCEPT !.name = o.val]
    ELSE IF o.opt = "WithTransport" THEN [t EXCEPT !.inner = o.val]
    ELSE IF o.opt = "WithMetric" THEN [t EXCEPT !.metric = o.val]
    ELSE IF o.opt = "WithDesc" THEN [t EXCEPT !.desc = o.val]
    ELSE IF o.opt = "WithUpdate" THEN [t EXCEPT !.update = o.val]
    ELSE t

\* The options applied last to first, so the first one that sets a field wins.
RECURSIVE ApplyOptionsReversed(_, _)
ApplyOptionsReversed(t, opts) ==
    IF opts = <<>> THEN t ELSE ApplyOption(ApplyOptionsReversed(t, Tail(opts)), Head(opts))

RECURSIVE ApplyOptions(_, _)
ApplyOptions(t, opts) ==
    IF opts = <<>> THEN t ELSE ApplyOptions(ApplyOption(t, Head(opts)), Tail(opts))

New(opts) ==
    ApplyOptions([inner |-> "mockTransport", metric |-> "DefaultMetric",
                  desc |-> "DefaultDesc", update |-> "DefaultUpdate", name |-> <<>>],
                 opts)

\* Timer.Transport: a copy of the timer with the extra options, bound to the
\* header of the context (there is one header, "h").
TransportFrom(t, ctx, opts) == [Timer |-> ApplyOptions(t, opts), timing |-> FromContext(ctx)]

\* Timer.Transport with the context of the first incoming request.
Transport(t, opts) == TransportFrom(t, "h", opts)

\* The header RoundTrip would use if it looked it up in the request's context.
TimingOfRequest(t, r) == FromContext(r.Ctx)

\* t.timing, the header RoundTrip records into.
Timing(t, r) == t.timing

\* t.metric(req), t.desc(req), t.update(metric, resp, err)
\* The functions a caller passes are the ones of the tests: a metric and a
\* desc function returning "surprise", an update function setting "big".
CallMetric(tr, r) == IF tr.Timer.metric = "DefaultMetric" THEN DefaultMetric(r) ELSE Surprise

CallDesc(tr, r) == IF tr.Timer.desc = "DefaultDesc" THEN DefaultDesc(r) ELSE Surprise

\* RoundTrip calling DefaultUpdate whatever update function is configured.
CallUpdateDefault(tr, m, r, e) == DefaultUpdate(m, r, e)

CallUpdate(tr, m, r, e) ==
    IF tr.Timer.update = "DefaultUpdate"
    THEN DefaultUpdate(m, r, e)
    ELSE DefaultUpdate(SetExtra(m, "big", Surprise), r, e)

\* http.Header.Get: the value of the key, the empty string when absent.
Get(headers, key) == IF key \in DOMAIN headers THEN headers[key] ELSE <<>>

ParseSegment(s) ==
    [Name |-> s.name,
     Desc |-> IF "desc" \in DOMAIN s.params THEN s.params["desc"] ELSE <<>>,
     Extra |-> [k \in DOMAIN s.params \ {"desc"} |-> s.params[k]],
     extraNil |-> FALSE,
     phase |-> "new"]

\* A parser that drops the segments it cannot read instead of failing.
ParseHeaderLenient(v) ==
    [err |-> FALSE,
     Metrics |-> LET good == SelectSeq(v, LAMBDA s : ~s.bad)
                 IN [i \in 1..Len(good) |-> ParseSegment(good[i])]]

\* servertiming.ParseHeader as InsertMetrics uses it: an error, or the
\* metrics of the segments in header order (none for the empty string).
ParseHeader(v) ==
    IF \E i \in 1..Len(v) : v[i].bad
    THEN [err |-> TRUE, Metrics |-> <<>>]
    ELSE [err |-> FALSE, Metrics |-> [i \in 1..Len(v) |-> ParseSegment(v[i])]]

\* Add storing the metric twice.
AddTwice(ms, m) == Append(Append(ms, m), m)

\* Add putting the metric in front.
AddFront(ms, m) == <<m>> \o ms

\* Header.Add: h.Metrics = append(h.Metrics, m)
Add(ms, m) == Append(ms, m)

\* The nested metrics stored in place of the present ones.
PrependOverwrite(more, ms) == IF more = <<>> THEN ms ELSE more \o <<ms[Len(ms)]>>

\* The nested metrics appended after the present ones.
PrependSwapped(more, ms) == ms \o more

\* append(more.Metrics, h.Metrics...)
Prepend(more, ms) == more \o ms

\* RoundTrip passing the response on together with the error.
RoundTripResultBoth(r, e) == [resp |-> r, err |-> e]

\* The two return statements of RoundTrip.
RoundTripResult(r, e) ==
    IF e # NilErr THEN [resp |-> NilResp, err |-> e] ELSE [resp |-> r, err |-> e]

----------------------------------------------------------------------------
(* State *)

VARIABLES
    tr,         \* the transport of each call: Timer copy and bound header
    Metrics,    \* h.Metrics of the bound header: sequence of metric pointers
    metric,     \* the heap of servertiming.Metric objects
    responses,  \* the heap of http.Response objects
    pc,         \* position of each RoundTrip invocation
    req,        \* RoundTrip's argument
    resp,       \* RoundTrip's local resp
    err,        \* RoundTrip's local err
    spliced,    \* InsertMetrics: the value of append(...) before it is stored
    ret,        \* what RoundTrip returned
    inner,      \* history: what the inner round tripper returned
    before,     \* history: h.Metrics when RoundTrip was entered
    timer,      \* the Timer the transports are made from
    mockCalls,  \* history: the requests the inner round tripper was called with
    updateCalls,\* history: the (resp, err) pairs t.update was called with
    baseOpts,   \* history: the options New was called with
    callOpts,   \* history: the options Timer.Transport was called with
    depth,      \* how many handlers deep the running handler is, counted from the leaf
    wire,       \* the Server-Timing value the handler one level down answers with
    subtree,    \* history: the entries made by one run of the handler one level down
                \* and by the handlers it called
    Metrics2    \* h.Metrics of the header of the second incoming request

vars == <<tr, Metrics, metric, responses, pc, req, resp, err, spliced, ret, inner, before,
          timer, mockCalls, updateCalls, baseOpts, callOpts, depth, wire, subtree, Metrics2>>

NoOutcome == [hasResp |-> FALSE, response |-> RespPlain, err |-> NilErr]

\* What does not depend on the configuration.
InitCalls ==
    /\ Metrics = <<>>
    /\ Metrics2 = <<>>
    /\ metric = EmptyMap
    /\ responses = EmptyMap
    /\ req = [c \in Calls |-> ReqGolang]
    /\ resp = [c \in Calls |-> NilResp]
    /\ err = [c \in Calls |-> NilErr]
    /\ spliced = [c \in Calls |-> <<>>]
    /\ ret = [c \in Calls |-> [resp |-> NilResp, err |-> NilErr]]
    /\ inner = [c \in Calls |-> NoOutcome]
    /\ before = [c \in Calls |-> <<>>]
    /\ mockCalls = [c \in Calls |-> <<>>]
    /\ updateCalls = [c \in Calls |-> <<>>]

\* The handler is called by a test; the servers it calls run no handler of
\* this kind.
NoHandlerBelow == depth = 1 /\ wire = <<>> /\ subtree = <<>>

\* A timer with or without a name; every call has its transport, made
\* without extra options.
Init ==
    /\ InitCalls
    /\ baseOpts \in {<<>>, <<WithName(NameN)>>}
    /\ timer = New(baseOpts)
    /\ callOpts = [c \in Calls |-> <<>>]
    /\ tr = [c \in Calls |-> Transport(timer, callOpts[c])]
    /\ pc = [c \in Calls |-> "idle"]
    /\ NoHandlerBelow

Own(c) == <<c, 0>>

\* h.Metrics; reading it through a nil h is guarded by the callers.
Collection(h) == IF h = "h" THEN Metrics ELSE IF h = "h2" THEN Metrics2 ELSE <<>>

\* h.Metrics = ms
Store(h, ms) ==
    /\ Metrics' = IF h = "h" THEN ms ELSE Metrics
    /\ Metrics2' = IF h = "h2" THEN ms ELSE Metrics2

\* Header.Add: h.Metrics = append(h.Metrics, m) under h's lock; a nil h
\* adds nothing.
HeaderAdd(h, id) == Store(h, IF h = NilHeader THEN <<>> ELSE Add(Collection(h), id))

\* The pointers of the metrics parsed from the response of call c.
NestedIds(c, n) == [i \in 1..n |-> <<c, i>>]

----------------------------------------------------------------------------
(* transport.RoundTrip, one action per step another call can interleave with *)

\* Line 46: t.timing.NewMetric(t.metric(req)).WithDesc(t.desc(req)).
\* Header.Add appends under the header's lock, so the append is one step.
\* Calls are numbered in the order they enter RoundTrip.
NewMetricFor(c, r) ==
    /\ pc[c] = "idle"
    /\ IF c = 1 THEN TRUE ELSE pc[c - 1] # "idle"
    /\ tr[c].Timer.metric # NilFunc /\ tr[c].Timer.desc # NilFunc
    /\ req' = [req EXCEPT ![c] = r]
    /\ metric' = (Own(c) :> [Name |-> CallMetric(tr[c], r), Desc |-> CallDesc(tr[c], r),
                             Extra |-> EmptyMap, extraNil |-> TRUE, phase |-> "new"])
                 @@ metric
    /\ HeaderAdd(Timing(tr[c], r), Own(c))
    /\ before' = [before EXCEPT ![c] = Collection(Timing(tr[c], r))]
    /\ pc' = [pc EXCEPT ![c] = "created"]
    /\ UNCHANGED <<tr, responses, resp, err, spliced, ret, inner,
                   timer, mockCalls, updateCalls, baseOpts, callOpts,
                   depth, wire, subtree>>

\* RoundTrip leaving the Extra map as NewMetric made the metric.
KeepExtra(m) == m

\* Lines 48-50: if metric.Extra == nil { metric.Extra = make(map[string]string) }
MakeExtra(m) == [m EXCEPT !.extraNil = FALSE]

\* RoundTrip entered with one of the requests of the tests.
NewMetric(c) == \E r \in Requests : NewMetricFor(c, r)

\* Start storing the source without looking whether the name is empty.
StartAlwaysSource(c) ==
    /\ pc[c] = "created"
    /\ LET m0 == MakeExtra(metric[Own(c)])
           m1 == SetExtra(m0, KeySource, tr[c].Timer.name)
       IN metric' = [metric EXCEPT ![Own(c)] = [m1 EXCEPT !.phase = "started"]]
    /\ pc' = [pc EXCEPT ![c] = "started"]
    /\ UNCHANGED <<tr, Metrics, responses, req, resp, err, spliced, ret, inner, before,
                   timer, mockCalls, updateCalls, baseOpts, callOpts,
                   depth, wire, subtree, Metrics2>>

\* Lines 48-56: make the Extra map, set the source, start the metric.
Start(c) ==
    /\ pc[c] = "created"
    /\ LET m0 == MakeExtra(metric[Own(c)])
           m1 == IF tr[c].Timer.name # <<>> THEN SetExtra(m0, KeySource, tr[c].Timer.name) ELSE m0
       IN metric' = [metric EXCEPT ![Own(c)] = [m1 EXCEPT !.phase = "started"]]
    /\ pc' = [pc EXCEPT ![c] = "started"]
    /\ UNCHANGED <<tr, Metrics, responses, req, resp, err, spliced, ret, inner, before,
                   timer, mockCalls, updateCalls, baseOpts, callOpts,
                   depth, wire, subtree, Metrics2>>

\* Line 59: resp, err := t.inner.RoundTrip(req), the inner round tripper
\* handing back o.
InnerRoundTripFor(c, o) ==
    /\ pc[c] = "started"
    /\ tr[c].Timer.inner # NilFunc
    /\ mockCalls' = [mockCalls EXCEPT ![c] = Append(@, req[c])]
    /\ inner' = [inner EXCEPT ![c] = o]
    /\ resp' = [resp EXCEPT ![c] = IF o.hasResp THEN c ELSE NilResp]
    /\ err' = [err EXCEPT ![c] = o.err]
    /\ responses' = IF o.hasResp THEN (c :> o.response) @@ responses ELSE responses
    /\ pc' = [pc EXCEPT ![c] = "returned"]
    /\ UNCHANGED <<tr, Metrics, metric, req, spliced, ret, before,
                   timer, updateCalls, baseOpts, callOpts,
                   depth, wire, subtree, Metrics2>>

\* InnerRoundTrip trying the inner round tripper a second time after an error.
InnerRoundTripRetry(c) ==
    /\ pc[c] = "started"
    /\ tr[c].Timer.inner # NilFunc
    /\ \E o \in Outcomes :
         /\ inner' = [inner EXCEPT ![c] = o]
         /\ resp' = [resp EXCEPT ![c] = IF o.hasResp THEN c ELSE NilResp]
         /\ err' = [err EXCEPT ![c] = o.err]
         /\ responses' = IF o.hasResp THEN (c :> o.response) @@ responses ELSE responses
         /\ mockCalls' = [mockCalls EXCEPT ![c] =
                            IF o.err # NilErr THEN @ \o <<req[c], req[c]>> ELSE Append(@, req[c])]
    /\ pc' = [pc EXCEPT ![c] = "returned"]
    /\ UNCHANGED <<tr, Metrics, metric, req, spliced, ret, before,
                   timer, updateCalls, baseOpts, callOpts,
                   depth, wire, subtree, Metrics2>>

\* The inner round tripper of the tests.
InnerRoundTrip(c) == \E o \in Outcomes : InnerRoundTripFor(c, o)

\* Stop reached only when the inner round trip gave no error.
StopOnSuccess(c) ==
    /\ pc[c] = "returned"
    /\ metric' = [metric EXCEPT ![Own(c)].phase = IF err[c] = NilErr THEN "stopped" ELSE @]
    /\ pc' = [pc EXCEPT ![c] = "stopped"]
    /\ UNCHANGED <<tr, Metrics, responses, req, resp, err, spliced, ret, inner, before,
                   timer, mockCalls, updateCalls, baseOpts, callOpts,
                   depth, wire, subtree, Metrics2>>

\* Line 62: metric.Stop()
Stop(c) ==
    /\ pc[c] = "returned"
    /\ metric' = [metric EXCEPT ![Own(c)].phase = "stopped"]
    /\ pc' = [pc EXCEPT ![c] = "stopped"]
    /\ UNCHANGED <<tr, Metrics, responses, req, resp, err, spliced, ret, inner, before,
                   timer, mockCalls, updateCalls, baseOpts, callOpts,
                   depth, wire, subtree, Metrics2>>

\* Update writing to the metric that is last in the header instead of the
\* one this call made.
UpdateLastMetric(c) ==
    /\ pc[c] = "stopped"
    /\ tr[c].Timer.update # NilFunc
    /\ updateCalls' = [updateCalls EXCEPT ![c] = Append(@, [resp |-> resp[c], err |-> err[c]])]
    /\ LET ms == Collection(Timing(tr[c], req[c]))
           id == IF ms = <<>> THEN Own(c) ELSE ms[Len(ms)]
       IN metric' = [metric EXCEPT ![id] =
                       CallUpdate(tr[c], @,
                                  IF resp[c] # NilResp THEN responses[resp[c]] ELSE RespPlain,
                                  err[c])]
    /\ pc' = [pc EXCEPT ![c] = "updated"]
    /\ UNCHANGED <<tr, Metrics, responses, req, resp, err, spliced, ret, inner, before,
                   timer, mockCalls, baseOpts, callOpts,
                   depth, wire, subtree, Metrics2>>

\* Update handing t.update a nil response whenever there is an error.
UpdateErrorOnly(c) ==
    /\ pc[c] = "stopped"
    /\ tr[c].Timer.update # NilFunc
    /\ updateCalls' = [updateCalls EXCEPT ![c] =
                         Append(@, [resp |-> IF err[c] # NilErr THEN NilResp ELSE resp[c],
                                    err |-> err[c]])]
    /\ metric' = [metric EXCEPT ![Own(c)] =
                    CallUpdate(tr[c], @, IF resp[c] # NilResp THEN responses[resp[c]] ELSE RespPlain,
                               err[c])]
    /\ pc' = [pc EXCEPT ![c] = "updated"]
    /\ UNCHANGED <<tr, Metrics, responses, req, resp, err, spliced, ret, inner, before,
                   timer, mockCalls, baseOpts, callOpts,
                   depth, wire, subtree, Metrics2>>

\* Line 65: t.update(metric, resp, err)
Update(c) ==
    /\ pc[c] = "stopped"
    /\ tr[c].Timer.update # NilFunc
    /\ updateCalls' = [updateCalls EXCEPT ![c] = Append(@, [resp |-> resp[c], err |-> err[c]])]
    /\ metric' = [metric EXCEPT ![Own(c)] =
                    CallUpdate(tr[c], @, IF resp[c] # NilResp THEN responses[resp[c]] ELSE RespPlain,
                               err[c])]
    /\ pc' = [pc EXCEPT ![c] = "updated"]
    /\ UNCHANGED <<tr, Metrics, responses, req, resp, err, spliced, ret, inner, before,
                   timer, mockCalls, baseOpts, callOpts,
                   depth, wire, subtree, Metrics2>>

\* Lines 68-70: return nil, err
ReturnError(c) ==
    /\ pc[c] = "updated"
    /\ err[c] # NilErr
    /\ ret' = [ret EXCEPT ![c] = RoundTripResult(resp[c], err[c])]
    /\ pc' = [pc EXCEPT ![c] = "done"]
    /\ UNCHANGED <<tr, Metrics, metric, responses, req, resp, err, spliced, inner, before,
                   timer, mockCalls, updateCalls, baseOpts, callOpts,
                   depth, wire, subtree, Metrics2>>

\* InsertMetrics removing the timing header from the response once read.
InsertMetricsReadConsume(c) ==
    /\ pc[c] = "updated"
    /\ err[c] = NilErr
    /\ Timing(tr[c], req[c]) = NilHeader =>
          ParseHeader(Get(responses[resp[c]].Header, HeaderKey)).err
    /\ LET more == ParseHeader(Get(responses[resp[c]].Header, HeaderKey))
           ids == NestedIds(c, Len(more.Metrics))
       IN IF more.err
          THEN /\ pc' = [pc EXCEPT ![c] = "merged"]
               /\ UNCHANGED <<metric, spliced>>
          ELSE /\ metric' = [id \in Range(ids) |-> more.Metrics[id[2]]] @@ metric
               /\ spliced' = [spliced EXCEPT ![c] = Prepend(ids, Collection(Timing(tr[c], req[c])))]
               /\ pc' = [pc EXCEPT ![c] = "merging"]
    /\ responses' = [responses EXCEPT ![resp[c]].Header = EmptyMap]
    /\ UNCHANGED <<tr, Metrics, req, resp, err, ret, inner, before,
                   timer, mockCalls, updateCalls, baseOpts, callOpts,
                   depth, wire, subtree, Metrics2>>

\* Lines 81-85, up to the evaluation of append(more.Metrics, h.Metrics...):
\* the header is parsed and h.Metrics is read, without holding h's lock.
InsertMetricsRead(c) ==
    /\ pc[c] = "updated"
    /\ err[c] = NilErr
    /\ Timing(tr[c], req[c]) = NilHeader =>
          ParseHeader(Get(responses[resp[c]].Header, HeaderKey)).err
    /\ LET more == ParseHeader(Get(responses[resp[c]].Header, HeaderKey))
           ids == NestedIds(c, Len(more.Metrics))
       IN IF more.err
          THEN /\ pc' = [pc EXCEPT ![c] = "merged"]
               /\ UNCHANGED <<metric, spliced>>
          ELSE /\ metric' = [id \in Range(ids) |-> more.Metrics[id[2]]] @@ metric
               /\ spliced' = [spliced EXCEPT ![c] = Prepend(ids, Collection(Timing(tr[c], req[c])))]
               /\ pc' = [pc EXCEPT ![c] = "merging"]
    /\ UNCHANGED <<tr, Metrics, responses, req, resp, err, ret, inner, before,
                   timer, mockCalls, updateCalls, baseOpts, callOpts,
                   depth, wire, subtree, Metrics2>>

\* InsertMetrics binding the transport to the parsed header.
InsertMetricsWriteRebind(c) ==
    /\ pc[c] = "merging"
    /\ Store(Timing(tr[c], req[c]), spliced[c])
    /\ tr' = [d \in Calls |-> [tr[d] EXCEPT !.timing = "more"]]
    /\ pc' = [pc EXCEPT ![c] = "merged"]
    /\ UNCHANGED <<metric, responses, req, resp, err, spliced, ret, inner, before,
                   timer, mockCalls, updateCalls, baseOpts, callOpts,
                   depth, wire, subtree>>

\* Line 85: the store to h.Metrics.
InsertMetricsWrite(c) ==
    /\ pc[c] = "merging"
    /\ Store(Timing(tr[c], req[c]), spliced[c])
    /\ pc' = [pc EXCEPT ![c] = "merged"]
    /\ UNCHANGED <<tr, metric, responses, req, resp, err, spliced, ret, inner, before,
                   timer, mockCalls, updateCalls, baseOpts, callOpts,
                   depth, wire, subtree>>

\* Line 75: return resp, err
Return(c) ==
    /\ pc[c] = "merged"
    /\ ret' = [ret EXCEPT ![c] = RoundTripResult(resp[c], err[c])]
    /\ pc' = [pc EXCEPT ![c] = "done"]
    /\ UNCHANGED <<tr, Metrics, metric, responses, req, resp, err, spliced, inner, before,
                   timer, mockCalls, updateCalls, baseOpts, callOpts,
                   depth, wire, subtree, Metrics2>>

\* No other call is inside RoundTrip.
Quiet(c) == \A d \in Calls \ {c} : pc[d] \in {"idle", "done"}

\* Calls from any number of goroutines sharing the header.
Next ==
    \E c \in Calls :
        \/ NewMetric(c)
        \/ Start(c)
        \/ InnerRoundTrip(c)
        \/ Stop(c)
        \/ Update(c)
        \/ ReturnError(c)
        \/ InsertMetricsRead(c)
        \/ InsertMetricsWrite(c)
        \/ Return(c)

Spec == Init /\ [][Next]_vars

\* Calls made one after the other.
SeqNext ==
    \E c \in Calls :
        \/ Quiet(c) /\ NewMetric(c)
        \/ Start(c)
        \/ InnerRoundTrip(c)
        \/ Stop(c)
        \/ Update(c)
        \/ ReturnError(c)
        \/ InsertMetricsRead(c)
        \/ InsertMetricsWrite(c)
        \/ Return(c)

SeqSpec == Init /\ [][SeqNext]_vars

\* Calls made one after the other for requests that share a host or a path,
\* each answered 200 without a timing header.
NamingNext ==
    \E c \in Calls :
        \/ Quiet(c) /\ \E r \in NamingRequests : NewMetricFor(c, r)
        \/ Start(c)
        \/ InnerRoundTrip(c) /\ inner'[c] = [hasResp |-> TRUE, response |-> RespPlain, err |-> NilErr]
        \/ Stop(c)
        \/ Update(c)
        \/ InsertMetricsRead(c)
        \/ InsertMetricsWrite(c)
        \/ Return(c)

NamingSpec == Init /\ [][NamingNext]_vars

----------------------------------------------------------------------------
(* A chain of handlers: every handler calls the handler one level down     *)
(* through its transport and answers with its header in Server-Timing      *)

\* How many handlers the chain has.
MaxDepth == 3

\* Metric.String: the name, then desc when it is not empty, then the Extra
\* pairs.
MetricString(m) ==
    [bad |-> FALSE, name |-> m.Name,
     params |-> [k \in DOMAIN m.Extra \cup (IF m.Desc # <<>> THEN {"desc"} ELSE {}) |->
                   IF k = "desc" THEN m.Desc ELSE m.Extra[k]]]

\* Header.String writing only the metrics the handler made itself.
HeaderStringOwn(ms) ==
    LET own == SelectSeq(ms, LAMBDA id : id[2] = 0)
    IN [i \in 1..Len(own) |-> MetricString(metric[own[i]])]

\* Header.String: the metrics in the order of h.Metrics.
HeaderString(ms) == [i \in 1..Len(ms) |-> MetricString(metric[ms[i]])]

\* The response of the handler one level down; the middleware sets the
\* header when there is a metric to write.
ChainResponse ==
    [StatusCode |-> 200,
     Header |-> IF wire = <<>> THEN EmptyMap ELSE [k \in {HeaderKey} |-> wire]]

\* The handler one level down answers, or it cannot be reached.
ChainOutcomes ==
    { [hasResp |-> TRUE,  response |-> ChainResponse, err |-> NilErr],
      [hasResp |-> FALSE, response |-> RespPlain,     err |-> "ErrFailed"] }

\* The options of the timer of the handler at depth d.
LevelOptions(d) ==
    IF d % 3 = 1 THEN <<WithName(NameN)>>
    ELSE IF d % 3 = 2 THEN <<>>
    ELSE <<WithName(NameO)>>

ChainInit ==
    /\ InitCalls
    /\ NoHandlerBelow
    /\ baseOpts = LevelOptions(1)
    /\ timer = New(baseOpts)
    /\ callOpts = [c \in Calls |-> <<>>]
    /\ tr = [c \in Calls |-> Transport(timer, callOpts[c])]
    /\ pc = [c \in Calls |-> "idle"]

\* What the header carries of a metric.
Contents(m) == [Name |-> m.Name, Desc |-> m.Desc, Extra |-> m.Extra]

\* The entries the running handler made, one per call, in call order.
OwnEntries ==
    LET made == {c \in Calls : pc[c] # "idle"}
    IN [c \in 1..Cardinality(made) |-> Contents(metric[Own(c)])]

\* The entries made downstream of the first k calls of the running
\* handler: those of one run of the handler below for every call that
\* reached it.
RECURSIVE BelowUpTo(_)
BelowUpTo(k) ==
    IF k = 0 THEN <<>>
    ELSE BelowUpTo(k - 1)
         \o (IF pc[k] \notin {"idle", "created", "started"} /\ inner[k].hasResp
             THEN subtree ELSE <<>>)

Below == BelowUpTo(MaxCalls)

\* handler.ServeHTTP returns and the middleware writes the header; the
\* handler one level up starts with a header of its own.
Serve ==
    /\ depth < MaxDepth
    /\ \A c \in Calls : pc[c] \in {"idle", "done"}
    /\ wire' = HeaderString(Metrics)
    /\ subtree' = Below \o OwnEntries
    /\ depth' = depth + 1
    /\ baseOpts' = LevelOptions(depth + 1)
    /\ timer' = New(baseOpts')
    /\ callOpts' = [c \in Calls |-> <<>>]
    /\ tr' = [c \in Calls |-> Transport(timer', callOpts'[c])]
    /\ pc' = [c \in Calls |-> "idle"]
    /\ Metrics' = <<>>
    /\ Metrics2' = <<>>
    /\ metric' = EmptyMap
    /\ responses' = EmptyMap
    /\ req' = [c \in Calls |-> ReqGolang]
    /\ resp' = [c \in Calls |-> NilResp]
    /\ err' = [c \in Calls |-> NilErr]
    /\ spliced' = [c \in Calls |-> <<>>]
    /\ ret' = [c \in Calls |-> [resp |-> NilResp, err |-> NilErr]]
    /\ inner' = [c \in Calls |-> NoOutcome]
    /\ before' = [c \in Calls |-> <<>>]
    /\ mockCalls' = [c \in Calls |-> <<>>]
    /\ updateCalls' = [c \in Calls |-> <<>>]

\* The handlers of the chain one after the other from the leaf up, each
\* making its calls in a loop.
ChainNext ==
    \/ \E c \in Calls :
        \/ Quiet(c) /\ NewMetricFor(c, ReqApi)
        \/ Start(c)
        \/ \E o \in ChainOutcomes : InnerRoundTripFor(c, o)
        \/ Stop(c)
        \/ Update(c)
        \/ ReturnError(c)
        \/ InsertMetricsRead(c)
        \/ InsertMetricsWrite(c)
        \/ Return(c)
    \/ Serve

ChainSpec == ChainInit /\ [][ChainNext]_vars

----------------------------------------------------------------------------
(* Transports of one Timer bound to the headers of two incoming requests,  *)
(* or made from a context without a header                                 *)

\* The contexts Timer.Transport is called with.
Contexts == Headers \cup {Background}

\* The first transport is made for the first incoming request.
BindInit ==
    /\ InitCalls
    /\ NoHandlerBelow
    /\ baseOpts = <<WithName(NameN)>>
    /\ timer = New(baseOpts)
    /\ callOpts = [c \in Calls |-> <<>>]
    /\ tr \in {f \in [Calls -> {TransportFrom(New(<<WithName(NameN)>>), ctx, <<>>) :
                                  ctx \in Contexts}] : f[1].timing = "h"}
    /\ pc = [c \in Calls |-> "idle"]

\* Line 85 with a nil h: the header of the response parsed, h.Metrics is
\* read through the nil pointer and RoundTrip panics.
PanicNilHeader(c) ==
    /\ pc[c] = "updated"
    /\ err[c] = NilErr
    /\ Timing(tr[c], req[c]) = NilHeader
    /\ ~ParseHeader(Get(responses[resp[c]].Header, HeaderKey)).err
    /\ pc' = [pc EXCEPT ![c] = "panicked"]
    /\ UNCHANGED <<tr, Metrics, metric, responses, req, resp, err, spliced, ret, inner, before,
                   timer, mockCalls, updateCalls, baseOpts, callOpts,
                   depth, wire, subtree, Metrics2>>

\* A response without a header, with one that parses and with one that
\* does not, and an error.
BindOutcomes == {o \in Outcomes : o.response # RespPartial}

\* Calls through the transports from any number of goroutines, every
\* request carrying the context of the second incoming request.
BindNext ==
    \E c \in Calls :
        \/ NewMetricFor(c, ReqBound)
        \/ Start(c)
        \/ \E o \in BindOutcomes : InnerRoundTripFor(c, o)
        \/ Stop(c)
        \/ Update(c)
        \/ ReturnError(c)
        \/ InsertMetricsRead(c)
        \/ InsertMetricsWrite(c)
        \/ PanicNilHeader(c)
        \/ Return(c)

BindSpec == BindInit /\ [][BindNext]_vars

----------------------------------------------------------------------------
(* Timer.Transport with options, and calls on a transport that lacks a     *)
(* function                                                                *)

\* The options New is called with.
BaseOptionLists ==
    { <<>>,
      <<WithName(NameN)>>,
      <<WithName(NameO), WithMetric("Surprise"), WithDesc("Surprise"),
        WithUpdate("BigSurprise"), WithName(NameN)>> }

\* The options Timer.Transport is called with.
CallOptionLists ==
    { <<>>,
      <<WithName(NameO)>>,
      <<WithMetric("Surprise"), WithName(<<>>), WithMetric("DefaultMetric")>>,
      <<WithMetric(NilFunc)>>,
      <<WithDesc(NilFunc)>>,
      <<WithTransport(NilFunc)>>,
      <<WithUpdate(NilFunc)>> }

\* The timer is made; no transport is made yet.
CfgInit ==
    /\ InitCalls
    /\ baseOpts \in BaseOptionLists
    /\ timer = New(baseOpts)
    /\ callOpts = [c \in Calls |-> <<>>]
    /\ tr = [c \in Calls |-> Transport(New(<<>>), <<>>)]
    /\ pc = [c \in Calls |-> "unbound"]
    /\ NoHandlerBelow

\* Timer.Transport applying the options to the timer itself.
TimerTransportShared(c) ==
    /\ pc[c] = "unbound"
    /\ IF c = 1 THEN TRUE ELSE pc[c - 1] # "unbound"
    /\ \E opts \in CallOptionLists :
         /\ timer' = ApplyOptions(timer, opts)
         /\ tr' = [tr EXCEPT ![c] = Transport(timer', <<>>)]
         /\ callOpts' = [callOpts EXCEPT ![c] = opts]
    /\ pc' = [pc EXCEPT ![c] = "idle"]
    /\ UNCHANGED <<Metrics, metric, responses, req, resp, err, spliced, ret, inner, before,
                   mockCalls, updateCalls, baseOpts, depth, wire, subtree, Metrics2>>

\* Lines 17-29: t.Transport(ctx, opts...) makes the transport of call c.
TimerTransport(c) ==
    /\ pc[c] = "unbound"
    /\ IF c = 1 THEN TRUE ELSE pc[c - 1] # "unbound"
    /\ \E opts \in CallOptionLists :
         /\ tr' = [tr EXCEPT ![c] = Transport(timer, opts)]
         /\ callOpts' = [callOpts EXCEPT ![c] = opts]
    /\ pc' = [pc EXCEPT ![c] = "idle"]
    /\ UNCHANGED <<Metrics, metric, responses, req, resp, err, spliced, ret, inner, before,
                   timer, mockCalls, updateCalls, baseOpts, depth, wire, subtree, Metrics2>>

\* RoundTrip calls a nil function or a nil round tripper and panics:
\* t.metric at line 46 before the metric is made, t.desc at line 46 after
\* NewMetric has added the metric, t.inner at line 59, t.update at line 65.
Panic(c) ==
    /\ \/ pc[c] = "idle" /\ (tr[c].Timer.metric = NilFunc \/ tr[c].Timer.desc = NilFunc)
       \/ pc[c] = "started" /\ tr[c].Timer.inner = NilFunc
       \/ pc[c] = "stopped" /\ tr[c].Timer.update = NilFunc
    /\ IF pc[c] = "idle" THEN (IF c = 1 THEN TRUE ELSE pc[c - 1] # "idle") ELSE TRUE
    /\ IF pc[c] = "idle" /\ tr[c].Timer.metric # NilFunc
       THEN /\ \E r \in Requests :
                 /\ req' = [req EXCEPT ![c] = r]
                 /\ metric' = (Own(c) :> [Name |-> CallMetric(tr[c], r), Desc |-> <<>>,
                                          Extra |-> EmptyMap, extraNil |-> TRUE,
                                          phase |-> "new"])
                              @@ metric
            /\ HeaderAdd(tr[c].timing, Own(c))
            /\ before' = [before EXCEPT ![c] = Collection(tr[c].timing)]
       ELSE UNCHANGED <<req, metric, Metrics, Metrics2, before>>
    /\ pc' = [pc EXCEPT ![c] = "panicked"]
    /\ UNCHANGED <<tr, responses, resp, err, spliced, ret, inner,
                   timer, mockCalls, updateCalls, baseOpts, callOpts,
                   depth, wire, subtree>>

\* The outcomes of the inner round trip looked at with the options: a plain
\* success, and a response together with an error.
CfgOutcomes == {o \in Outcomes : o.hasResp /\ o.response \in {RespPlain, RespPartial}}

\* Transports made with options and used from any number of goroutines.
CfgNext ==
    \E c \in Calls :
        \/ TimerTransport(c)
        \/ Panic(c)
        \/ NewMetric(c) /\ req'[c] = ReqGolang
        \/ Start(c)
        \/ InnerRoundTrip(c) /\ inner'[c] \in CfgOutcomes
        \/ Stop(c)
        \/ Update(c)
        \/ ReturnError(c)
        \/ InsertMetricsRead(c)
        \/ InsertMetricsWrite(c)
        \/ Return(c)

CfgSpec == CfgInit /\ [][CfgNext]_vars

TypeOK ==
    /\ pc \in [Calls -> {"unbound", "panicked", "idle", "created", "started", "returned", "stopped", "updated",
                         "merging", "merged", "done"}]
    /\ \A i \in 1..Len(Metrics) : Metrics[i] \in DOMAIN metric

----------------------------------------------------------------------------
(* Vocabulary of the properties *)

\* The value of the Server-Timing header of the response the inner round
\* tripper gave to call c.
TimingHeader(c) == Get(inner[c].response.Header, HeaderKey)

\* A header value the parser rejects.
Unparsable(v) == \E i \in 1..Len(v) : v[i].bad

\* The inner round trip of call c succeeded: a response and a nil error.
Succeeded(c) == inner[c].hasResp /\ inner[c].err = NilErr

\* The nested segments the response of call c carries: the segments of a
\* header that parses, none when there is no response, no header or a
\* header that does not parse.
Carried(c) ==
    IF inner[c].hasResp /\ ~Unparsable(TimingHeader(c)) THEN TimingHeader(c) ELSE <<>>

\* Call c is the last call that entered RoundTrip.
Latest(c) == \A d \in Calls : d > c => pc[d] = "idle"

\* Call c has returned and no call was made since.
JustReturned(c) == pc[c] = "done" /\ Latest(c)

Count(ms, id) == Cardinality({i \in 1..Len(ms) : ms[i] = id})

Index(ms, id) == CHOOSE i \in 1..Len(ms) : ms[i] = id

----------------------------------------------------------------------------
(* C1 (SeqSpec): a call that runs alone and succeeds with a header that    *)
(* parses to N leaves the collection equal to N ++ C ++ [e], C the         *)
(* contents on entry and e the call's own metric; the nested metrics are   *)
(* the parsed segments in header order.                                    *)
MergeSpliceOrder ==
    \A c \in Calls :
        (JustReturned(c) /\ Succeeded(c) /\ ~Unparsable(TimingHeader(c))) =>
            LET n == Len(TimingHeader(c))
            IN /\ Metrics = NestedIds(c, n) \o before[c] \o <<Own(c)>>
               /\ \A i \in 1..n : metric[<<c, i>>] = ParseSegment(TimingHeader(c)[i])

WitnessMergeSpliceOrder ==
    \E c \in Calls :
        /\ JustReturned(c) /\ Succeeded(c)
        /\ Len(Carried(c)) = 2
        /\ before[c] # <<>>

(* C2 (Spec): when all calls ran concurrently on the collection that       *)
(* started empty, every one succeeded and no response carried a nested     *)
(* entry, the final collection holds exactly one entry per call.           *)
FanOutSafety ==
    ((\A c \in Calls : pc[c] = "done" /\ Succeeded(c) /\ Carried(c) = <<>>)) =>
        /\ Len(Metrics) = MaxCalls
        /\ \A c \in Calls : Count(Metrics, Own(c)) = 1

(* C3 (Spec): when call c has finished its merge and another call d has    *)
(* only created its entry so far, the entry of d is in the collection and  *)
(* the nested entries of c are in it, in order, ahead of the entry of c.   *)
MergeAtomicWithNewEntry ==
    \A c, d \in Calls :
        (/\ c # d
         /\ pc[c] \in {"merged", "done"} /\ Succeeded(c)
         /\ pc[d] \in {"created", "started", "returned", "stopped", "updated"}
         /\ \A x \in Calls \ {c, d} : pc[x] = "idle") =>
            /\ Count(Metrics, Own(d)) = 1
            /\ \A i \in 1..Len(Carried(c)) :
                 /\ Count(Metrics, <<c, i>>) = 1
                 /\ Metrics[i] = <<c, i>>

(* C4 (Spec): when two calls both succeeded with headers that parse and    *)
(* both finished their merge, the collection holds every nested entry of   *)
(* both exactly once, each group contiguous and in header order, and the   *)
(* entries the collection held before.                                     *)
ConcurrentMergesSerialized ==
    \A c, d \in Calls :
        (/\ c # d
         /\ pc[c] \in {"merged", "done"} /\ Succeeded(c) /\ Carried(c) # <<>>
         /\ pc[d] \in {"merged", "done"} /\ Succeeded(d) /\ Carried(d) # <<>>) =>
            /\ Count(Metrics, Own(c)) = 1
            /\ Count(Metrics, Own(d)) = 1
            /\ \A x \in {c, d} : \A i \in 1..Len(Carried(x)) :
                 /\ Count(Metrics, <<x, i>>) = 1
                 /\ i > 1 => Index(Metrics, <<x, i>>) = Index(Metrics, <<x, i - 1>>) + 1

(* C5 (SeqSpec): a successful call that runs alone adds its own entry      *)
(* exactly once; every other entry it adds is a nested entry parsed from   *)
(* its response, so the collection grows by 1 + |nested|.                  *)
OneEntryPerCall ==
    \A c \in Calls :
        (JustReturned(c) /\ Succeeded(c)) =>
            /\ Count(Metrics, Own(c)) = 1
            /\ Count(before[c], Own(c)) = 0
            /\ Len(Metrics) = Len(before[c]) + 1 + Len(Carried(c))
            /\ \A i \in 1..Len(Metrics) :
                 \/ Metrics[i] = Own(c)
                 \/ Metrics[i] \in Range(before[c])
                 \/ Metrics[i] \in Range(NestedIds(c, Len(Carried(c))))

WitnessOneEntryPerCall ==
    /\ \E c \in Calls : JustReturned(c) /\ Succeeded(c) /\ Carried(c) # <<>> /\ before[c] # <<>>
    /\ \E c \in Calls : pc[c] = "done" /\ Succeeded(c) /\ Carried(c) = <<>>

(* C6 (SeqSpec): after sequential calls none of whose responses carried    *)
(* nested data, the collection is the calls' entries in the order the      *)
(* calls were made.                                                        *)
AppendOrder ==
    (\A c \in Calls : Carried(c) = <<>>) =>
        Metrics = [i \in 1..Cardinality({c \in Calls : pc[c] # "idle"}) |-> Own(i)]

WitnessAppendOrder ==
    /\ \A c \in Calls : Carried(c) = <<>>
    /\ pc[1] = "done" /\ pc[2] = "done"
    /\ Metrics[1] = Own(1) /\ Metrics[2] = Own(2)

(* C7 (SeqSpec): when the inner round tripper returns an error and no      *)
(* response, the call returns that error and a nil response, its entry     *)
(* has "error" set to the error's message and no "code", nothing was       *)
(* parsed or merged, and the collection is the prior contents followed by  *)
(* the entry.                                                              *)
ErrorPath ==
    \A c \in Calls :
        (JustReturned(c) /\ ~inner[c].hasResp /\ inner[c].err # NilErr) =>
            /\ ret[c] = [resp |-> NilResp, err |-> inner[c].err]
            /\ "error" \in DOMAIN metric[Own(c)].Extra
            /\ metric[Own(c)].Extra["error"] = ErrorText(inner[c].err)
            /\ "code" \notin DOMAIN metric[Own(c)].Extra
            /\ spliced[c] = <<>>
            /\ \A id \in DOMAIN metric : id[1] = c => id = Own(c)
            /\ Metrics = before[c] \o <<Own(c)>>

WitnessErrorPath ==
    \E c \in Calls :
        /\ JustReturned(c) /\ ~inner[c].hasResp /\ inner[c].err = "ErrFailed"
        /\ before[c] # <<>>

(* C8 (SeqSpec): when the inner call succeeds and the response has no      *)
(* timing header or one that does not parse, the call returns the          *)
(* response and a nil error and the collection is the prior contents       *)
(* followed by the call's one entry.                                       *)
MissingOrMalformedHeader ==
    \A c \in Calls :
        (/\ JustReturned(c) /\ Succeeded(c)
         /\ \/ HeaderKey \notin DOMAIN inner[c].response.Header
            \/ Unparsable(TimingHeader(c))) =>
            /\ ret[c] = [resp |-> c, err |-> NilErr]
            /\ Metrics = before[c] \o <<Own(c)>>

WitnessMissingHeader ==
    /\ \E c \in Calls : /\ JustReturned(c) /\ Succeeded(c) /\ before[c] # <<>>
                        /\ HeaderKey \notin DOMAIN inner[c].response.Header
    /\ \E c \in Calls : /\ pc[c] = "done" /\ Succeeded(c)
                        /\ HeaderKey \in DOMAIN inner[c].response.Header
                        /\ Unparsable(TimingHeader(c))

(* C9 as claimed (Spec): a call that returned gives back the error and     *)
(* the response the inner round tripper returned, for every outcome.       *)
TransparentOutcome ==
    \A c \in Calls :
        pc[c] = "done" =>
            /\ ret[c].err = inner[c].err
            /\ ret[c].resp = (IF inner[c].hasResp THEN c ELSE NilResp)

(* C9 as amended (Spec): a call that returned gives back the error the     *)
(* inner round tripper returned; with a nil error it gives back the inner  *)
(* response, and with a non-nil error a nil response.                      *)
TransparentError ==
    \A c \in Calls :
        pc[c] = "done" =>
            /\ ret[c].err = inner[c].err
            /\ inner[c].err = NilErr => ret[c].resp = c /\ inner[c].hasResp
            /\ inner[c].err # NilErr => ret[c].resp = NilResp

WitnessTransparentError ==
    /\ \E c \in Calls : pc[c] = "done" /\ inner[c].hasResp /\ inner[c].err # NilErr
    /\ \E c \in Calls : pc[c] = "done" /\ Succeeded(c) /\ Unparsable(TimingHeader(c))

(* C10 (Spec): on the success path the call returns the response object    *)
(* of the inner round tripper, and from the merge on that object is what   *)
(* the inner round tripper returned, timing header included.               *)
ResponseUntouched ==
    \A c \in Calls :
        (pc[c] \in {"merging", "merged", "done"} /\ Succeeded(c)) =>
            /\ responses[c] = inner[c].response
            /\ pc[c] = "done" => ret[c].resp = c

WitnessResponseUntouched ==
    \E c \in Calls :
        /\ pc[c] = "done" /\ Succeeded(c) /\ Carried(c) # <<>>
        /\ Metrics # before[c] \o <<Own(c)>>

(* C12 as claimed (SeqSpec): after sequential calls the entries are in     *)
(* the order their operations started; the operation of an entry that      *)
(* belongs to an earlier call (its own entry or one nested in its          *)
(* response) started before that of an entry that belongs to a later call, *)
(* so no entry of a later call stands before an entry of an earlier call.  *)
EarliestStartedFirst ==
    \A i, j \in 1..Len(Metrics) : i < j => Metrics[i][1] <= Metrics[j][1]

\* Call c has stored the metrics parsed from its response.
Merged(c) == pc[c] \in {"merged", "done"} /\ Succeeded(c)

RECURSIVE NestedGroups(_)
NestedGroups(k) ==
    IF k = 0 THEN <<>>
    ELSE (IF Merged(k) THEN NestedIds(k, Len(Carried(k))) ELSE <<>>) \o NestedGroups(k - 1)

(* C12 as amended (SeqSpec): after sequential calls the collection is the  *)
(* nested groups of the calls that merged, the group of the latest call    *)
(* first and each group in header order, followed by the calls' own        *)
(* entries in the order the calls were made.                               *)
LatestNestedFirst ==
    (\A c \in Calls : pc[c] # "merging") =>
        Metrics = NestedGroups(MaxCalls)
                  \o [i \in 1..Cardinality({c \in Calls : pc[c] # "idle"}) |-> Own(i)]

WitnessLatestNestedFirst ==
    /\ pc[1] = "done" /\ Succeeded(1) /\ Carried(1) = <<>>
    /\ pc[2] = "done" /\ Succeeded(2) /\ Len(Carried(2)) = 2
    /\ Metrics[1] = <<2, 1>> /\ Metrics[3] = Own(1)

----------------------------------------------------------------------------
(* Vocabulary of the configuration properties *)

\* The transport of call c has been made.
Bound(c) == pc[c] # "unbound"

\* RoundTrip of call c is past line 56: the source is set, the metric started.
Labelled(c) == Own(c) \in DOMAIN metric /\ metric[Own(c)].phase # "new"

\* RoundTrip of call c is past line 65.
Updated(c) == pc[c] \in {"updated", "merging", "merged", "done"}

\* The value the last option named o of the list gives, d when there is none.
LastSet(opts, o, d) ==
    LET at == {i \in 1..Len(opts) : opts[i].opt = o}
    IN IF at = {} THEN d ELSE opts[CHOOSE i \in at : \A j \in at : j <= i].val

\* The source attribute of the entry of call c is exactly the name n.
SourceIs(c, n) ==
    IF n = <<>>
    THEN KeySource \notin DOMAIN metric[Own(c)].Extra
    ELSE KeySource \in DOMAIN metric[Own(c)].Extra /\ metric[Own(c)].Extra[KeySource] = n

(* C13 (CfgSpec): once a call has set up its entry, the entry has the      *)
(* attribute "source" equal to the name of the call's transport when that  *)
(* name is not empty, and no "source" attribute when it is empty.          *)
SourceLabel ==
    \A c \in Calls : Labelled(c) => SourceIs(c, tr[c].Timer.name)

WitnessSourceLabel ==
    /\ \E c \in Calls : pc[c] = "done" /\ tr[c].Timer.name = NameO
    /\ \E c \in Calls : pc[c] = "done" /\ tr[c].Timer.name = <<>> /\ timer.name = NameN

(* C14 (CfgSpec): Timer.Transport with options leaves the timer as New     *)
(* made it; the configuration of every transport is the timer's with its   *)
(* own options only; and the entry of a call whose transport was made      *)
(* without options has the timer's source, name, description and update,   *)
(* also while calls on transports with other options are running.          *)
OverrideIsolation ==
    /\ timer = New(baseOpts)
    /\ \A c \in Calls : Bound(c) =>
         /\ tr[c] = Transport(New(baseOpts), callOpts[c])
         /\ (Labelled(c) /\ callOpts[c] = <<>>) =>
              /\ SourceIs(c, New(baseOpts).name)
              /\ metric[Own(c)].Name = CallMetric([Timer |-> New(baseOpts)], req[c])
              /\ pc[c] # "panicked" =>
                   metric[Own(c)].Desc = CallDesc([Timer |-> New(baseOpts)], req[c])
              /\ Updated(c) =>
                   ("big" \in DOMAIN metric[Own(c)].Extra
                      <=> New(baseOpts).update = "BigSurprise")

WitnessOverrideIsolation ==
    \E c, d \in Calls :
        /\ callOpts[c] = <<WithName(NameO)>> /\ pc[c] \in {"started", "returned", "stopped"}
        /\ callOpts[d] = <<>> /\ pc[d] \in {"started", "returned", "stopped"}
        /\ timer.name = NameN
        /\ metric[Own(d)].Extra[KeySource] = NameN
        /\ metric[Own(c)].Extra[KeySource] = NameO

(* C15 (CfgSpec): in the configuration of a transport every field has the  *)
(* value of the last option that sets it in the list of New followed by    *)
(* the list of Timer.Transport, and the default when none does; the entry  *)
(* of a call made with WithName over a named timer has the call's name.    *)
OverridePrecedence ==
    \A c \in Calls : Bound(c) =>
        LET all == baseOpts \o callOpts[c]
        IN /\ tr[c].Timer.name = LastSet(all, "WithName", <<>>)
           /\ tr[c].Timer.inner = LastSet(all, "WithTransport", "mockTransport")
           /\ tr[c].Timer.metric = LastSet(all, "WithMetric", "DefaultMetric")
           /\ tr[c].Timer.desc = LastSet(all, "WithDesc", "DefaultDesc")
           /\ tr[c].Timer.update = LastSet(all, "WithUpdate", "DefaultUpdate")
           /\ Labelled(c) => SourceIs(c, LastSet(all, "WithName", <<>>))

WitnessOverridePrecedence ==
    \E c \in Calls :
        /\ pc[c] = "done"
        /\ baseOpts = <<WithName(NameN)>> /\ callOpts[c] = <<WithName(NameO)>>
        /\ metric[Own(c)].Extra[KeySource] = NameO

(* C18 (CfgSpec): when the inner round tripper returns a response together *)
(* with an error, the update function is called once with that response    *)
(* and that error, the call returns the error with a nil response, and     *)
(* nothing is parsed or merged although the response carries a timing      *)
(* header that parses.                                                     *)
ResponseAndError ==
    \A c \in Calls :
        (pc[c] = "done" /\ inner[c].hasResp /\ inner[c].err # NilErr) =>
            /\ updateCalls[c] = <<[resp |-> c, err |-> inner[c].err]>>
            /\ responses[c] = inner[c].response
            /\ tr[c].Timer.update = "BigSurprise" => "big" \in DOMAIN metric[Own(c)].Extra
            /\ ret[c] = [resp |-> NilResp, err |-> inner[c].err]
            /\ spliced[c] = <<>>
            /\ \A id \in DOMAIN metric : id[1] = c => id = Own(c)
            /\ \A i \in 1..Len(Metrics) : Metrics[i][1] = c => Metrics[i] = Own(c)

WitnessResponseAndError ==
    \E c \in Calls :
        /\ pc[c] = "done" /\ inner[c].hasResp /\ inner[c].err # NilErr
        /\ ~ParseHeader(TimingHeader(c)).err /\ Len(TimingHeader(c)) > 0
        /\ tr[c].Timer.update = "BigSurprise"
        /\ updateCalls[c] = <<[resp |-> c, err |-> inner[c].err]>>

(* C20 (CfgSpec): whatever options New and Timer.Transport were given, a   *)
(* transport that was made has a metric, a desc and an update function and *)
(* an inner round tripper, none of them nil, and no call fails for the     *)
(* lack of one.                                                            *)
NoUnconfiguredState ==
    \A c \in Calls :
        /\ Bound(c) =>
             /\ tr[c].Timer.metric # NilFunc
             /\ tr[c].Timer.desc # NilFunc
             /\ tr[c].Timer.update # NilFunc
             /\ tr[c].Timer.inner # NilFunc
        /\ pc[c] # "panicked"

(* C16 (Spec): a call hands its own request to the inner round tripper     *)
(* exactly once, at line 59, whether the inner call succeeds or fails:     *)
(* never before line 59, never a second time after it.                     *)
SingleDelegation ==
    \A c \in Calls :
        mockCalls[c] = IF pc[c] \in {"idle", "created", "started"} THEN <<>> ELSE <<req[c]>>

WitnessSingleDelegation ==
    \E c, d \in Calls :
        /\ pc[c] = "done" /\ inner[c].err # NilErr /\ mockCalls[c] = <<req[c]>>
        /\ pc[d] = "done" /\ Succeeded(d) /\ mockCalls[d] = <<req[d]>>
        /\ req[c] # req[d]

\* The number a string of decimal digits stands for.
RECURSIVE DecimalValue(_)
DecimalValue(s) ==
    IF s = <<>> THEN 0
    ELSE DecimalValue(SubSeq(s, 1, Len(s) - 1)) * 10
         + (CHOOSE d \in 0..9 : DigitChar(d) = s[Len(s)])

IsDecimal(s) == s # <<>> /\ \A i \in 1..Len(s) : \E d \in 0..9 : DigitChar(d) = s[i]

(* C17 (Spec): with the default update function, once a call has updated   *)
(* its entry the entry has exactly one of "error" and "code": "error" with *)
(* the error's message when the inner call returned an error, otherwise    *)
(* "code" with the decimal text of the status code, also for a status      *)
(* outside 200..299.                                                       *)
DefaultUpdateAttributes ==
    \A c \in Calls :
        (Updated(c) /\ tr[c].Timer.update = "DefaultUpdate") =>
            LET x == metric[Own(c)].Extra
            IN IF inner[c].err # NilErr
               THEN /\ "error" \in DOMAIN x /\ "code" \notin DOMAIN x
                    /\ x["error"] = ErrorText(inner[c].err)
               ELSE /\ "code" \in DOMAIN x /\ "error" \notin DOMAIN x
                    /\ IsDecimal(x["code"])
                    /\ x["code"][1] # "0"
                    /\ DecimalValue(x["code"]) = inner[c].response.StatusCode

WitnessDefaultUpdateAttributes ==
    \E c, d \in Calls :
        /\ pc[c] = "done" /\ inner[c].err = NilErr /\ inner[c].response.StatusCode = 404
        /\ metric[Own(c)].Extra["code"] = <<"4", "0", "4">>
        /\ "error" \notin DOMAIN metric[Own(c)].Extra
        /\ pc[d] = "done" /\ inner[d].err # NilErr /\ inner[d].hasResp
        /\ "error" \in DOMAIN metric[Own(d)].Extra
        /\ "code" \notin DOMAIN metric[Own(d)].Extra

\* The call entered RoundTrip with the default metric and desc functions.
DefaultNamed(c) ==
    /\ Own(c) \in DOMAIN metric
    /\ tr[c].Timer.metric = "DefaultMetric"
    /\ tr[c].Timer.desc = "DefaultDesc"

(* C19 (NamingSpec): with the default functions the entry's name is the    *)
(* request's Host with every ':' turned into '.', so two requests with the *)
(* same Host get the same name whatever their path, query and credentials; *)
(* the description is the method, one space and the URL path, "GET " for   *)
(* a GET with an empty path.                                               *)
DefaultMetadata ==
    /\ \A c \in Calls :
         DefaultNamed(c) =>
            LET m == metric[Own(c)]
                h == req[c].Host
                k == Len(req[c].Method)
            IN /\ Len(m.Name) = Len(h)
               /\ \A i \in 1..Len(h) : m.Name[i] = IF h[i] = ":" THEN "." ELSE h[i]
               /\ Len(m.Desc) = k + 1 + Len(req[c].Path)
               /\ SubSeq(m.Desc, 1, k) = req[c].Method
               /\ m.Desc[k + 1] = " "
               /\ SubSeq(m.Desc, k + 2, Len(m.Desc)) = req[c].Path
               /\ req[c] = ReqGolang => m.Desc = <<"G", "E", "T", " ">>
               /\ req[c] = ReqGolangPrivate =>
                    /\ m.Name = <<"g", ".", "8", ".">>
                    /\ m.Desc = <<"G", "E", "T", " ", "/", "v">>
    /\ \A c, d \in Calls :
         (DefaultNamed(c) /\ DefaultNamed(d) /\ req[c].Host = req[d].Host) =>
            metric[Own(c)].Name = metric[Own(d)].Name

WitnessDefaultMetadata ==
    \E c, d \in Calls :
        /\ pc[c] = "done" /\ pc[d] = "done"
        /\ DefaultNamed(c) /\ DefaultNamed(d)
        /\ req[c] = ReqGolang /\ req[d] = ReqGolangPrivate
        /\ metric[Own(c)].Name = metric[Own(d)].Name
        /\ metric[Own(c)].Desc = <<"G", "E", "T", " ">>
        /\ metric[Own(d)].Desc = <<"G", "E", "T", " ", "/", "v">>

\* How often the contents e occur in a sequence of contents.
Occurrences(es, e) == Cardinality({i \in 1..Len(es) : es[i] = e})

\* The contents of the entries of the collection that came from responses.
CollectedFromBelow ==
    LET ids == SelectSeq(Metrics, LAMBDA id : id[2] # 0)
    IN [i \in 1..Len(ids) |-> Contents(metric[ids[i]])]

\* The handler is between two calls or has made its last.
Resting == \A c \in Calls : pc[c] \in {"idle", "done"}

(* C11 (ChainSpec): when a handler of the chain is not inside a call, its  *)
(* collection holds, besides one entry for each call it made, every entry  *)
(* made by the handlers downstream of those calls at any depth: each as    *)
(* often as it was made, with the name, the description and the            *)
(* attributes it was given where it was made.                              *)
UpstreamCollected ==
    Resting =>
        /\ \A c \in Calls : Count(Metrics, Own(c)) = IF pc[c] = "done" THEN 1 ELSE 0
        /\ Len(CollectedFromBelow) = Len(Below)
        /\ \A e \in Range(Below) \cup Range(CollectedFromBelow) :
              Occurrences(CollectedFromBelow, e) = Occurrences(Below, e)

WitnessUpstreamCollected ==
    /\ depth >= 3
    /\ \A c \in Calls : pc[c] = "done" /\ inner[c].hasResp
    /\ \E e, f, g \in Range(CollectedFromBelow) :
         /\ KeySource \in DOMAIN e.Extra /\ e.Extra[KeySource] = NameN
         /\ "code" \in DOMAIN e.Extra
         /\ Occurrences(CollectedFromBelow, e) >= 4
         /\ KeySource \notin DOMAIN f.Extra
         /\ "error" \in DOMAIN g.Extra

\* The positions RoundTrip passes through, in the order of its lines.
StepAfter ==
    { <<"idle", "created">>, <<"created", "started">>, <<"started", "returned">>,
      <<"returned", "stopped">>, <<"stopped", "updated">>, <<"updated", "merging">>,
      <<"updated", "merged">>, <<"merging", "merged">>, <<"merged", "done">>,
      <<"updated", "done">> }

PhaseRank(p) == IF p = "new" THEN 0 ELSE IF p = "started" THEN 1 ELSE 2

\* What a step may do to call c and its entry.
StepInOrder(c) ==
    /\ pc'[c] # pc[c] => <<pc[c], pc'[c]>> \in StepAfter
    /\ (pc[c] = "updated" /\ pc'[c] \in {"merging", "merged"}) => inner[c].err = NilErr
    /\ (pc[c] = "updated" /\ pc'[c] = "done") => inner[c].err # NilErr
    /\ pc'[c] = "idle" => Own(c) \notin DOMAIN metric'
    /\ pc'[c] = "created" =>
          /\ metric'[Own(c)].phase = "new"
          /\ KeySource \notin DOMAIN metric'[Own(c)].Extra
    /\ pc'[c] \in {"started", "returned"} =>
          /\ metric'[Own(c)].phase = "started"
          /\ tr[c].Timer.name # <<>> => KeySource \in DOMAIN metric'[Own(c)].Extra
    /\ pc'[c] \in {"stopped", "updated", "merging", "merged", "done"} =>
          metric'[Own(c)].phase = "stopped"
    /\ mockCalls'[c] = <<>> <=> pc'[c] \in {"idle", "created", "started"}
    /\ updateCalls'[c] = <<>> <=> pc'[c] \in {"idle", "created", "started", "returned", "stopped"}
    /\ ret'[c] # [resp |-> NilResp, err |-> NilErr] => pc'[c] = "done"

(* C21 (Spec): every call goes through create entry, source label and      *)
(* start, inner call, stop, update, merge (only without an error), return, *)
(* in this order: the entry is started before the inner round tripper is   *)
(* called and stopped after it came back, with or without an error; the    *)
(* call does not return before the inner round tripper has; and no entry   *)
(* ever goes back from stopped to started or from started to not started.  *)
StepOrder ==
    [][ /\ \A c \in Calls : StepInOrder(c)
        /\ \A id \in DOMAIN metric :
              /\ id \in DOMAIN metric'
              /\ PhaseRank(metric'[id].phase) >= PhaseRank(metric[id].phase) ]_vars

WitnessStepOrder ==
    \E c, d \in Calls :
        /\ pc[c] = "done" /\ inner[c].err # NilErr /\ metric[Own(c)].phase = "stopped"
        /\ mockCalls[c] # <<>>
        /\ pc[d] = "done" /\ Succeeded(d) /\ metric[Own(d)].phase = "stopped"
        /\ Len(Carried(d)) > 0
        /\ tr[c].Timer.name # <<>>

(* C22 (CfgSpec): every call invokes its update function once, when its    *)
(* entry is stopped and before it reads a header, merges or returns, with  *)
(* the response and the error the inner round tripper returned, also when  *)
(* that error is not nil; what a custom update function writes is written  *)
(* to the entry of this call, to no other entry, and stays on it.          *)
UpdateStep ==
    /\ \A c \in Calls :
         /\ Len(updateCalls[c]) = IF Updated(c) THEN 1 ELSE 0
         /\ Updated(c) =>
              /\ updateCalls[c][1] = [resp |-> IF inner[c].hasResp THEN c ELSE NilResp,
                                      err |-> inner[c].err]
              /\ inner[c].hasResp => responses[c] = inner[c].response
              /\ metric[Own(c)].phase = "stopped"
              /\ tr[c].Timer.update = "BigSurprise" =>
                   /\ "big" \in DOMAIN metric[Own(c)].Extra
                   /\ metric[Own(c)].Extra["big"] = Surprise
                   /\ \A i \in 1..Len(Metrics) :
                        Metrics[i] = Own(c) => metric[Metrics[i]].Extra["big"] = Surprise
         /\ ~Updated(c) =>
              /\ spliced[c] = <<>>
              /\ ret[c] = [resp |-> NilResp, err |-> NilErr]
              /\ \A id \in DOMAIN metric : id[1] = c => id = Own(c)
    /\ \A id \in DOMAIN metric :
         "big" \in DOMAIN metric[id].Extra =>
            /\ id = Own(id[1])
            /\ Updated(id[1])
            /\ tr[id[1]].Timer.update = "BigSurprise"

WitnessUpdateStep ==
    \E c, d \in Calls :
        /\ pc[c] = "done" /\ inner[c].err # NilErr
        /\ pc[d] = "done" /\ inner[d].err = NilErr
        /\ tr[c].Timer.update = "BigSurprise" /\ tr[d].Timer.update = "BigSurprise"
        /\ Len(updateCalls[c]) = 1 /\ Len(updateCalls[d]) = 1
        /\ \E i, j \in 1..Len(Metrics) :
             /\ Metrics[i] = Own(c) /\ metric[Own(c)].Extra["big"] = Surprise
             /\ Metrics[j] = Own(d) /\ metric[Own(d)].Extra["big"] = Surprise

\* Call c is past line 56: its entry has been started.
PastStart(c) ==
    pc[c] \in {"started", "returned", "stopped", "updated", "merging", "merged", "done"}

(* C23 (Spec): from the start of the entry on, so when the update function *)
(* is called and ever after, the Extra map of the call's entry is not nil, *)
(* with and without a timer name, although NewMetric hands the metric out  *)
(* with a nil map.                                                         *)
AttributesWritable ==
    \A c \in Calls :
        /\ PastStart(c) => ~metric[Own(c)].extraNil
        /\ pc[c] = "created" => metric[Own(c)].extraNil

WitnessAttributesWritable ==
    \E c, d \in Calls :
        /\ pc[c] = "stopped" /\ updateCalls[c] = <<>>
        /\ tr[c].Timer.name = <<>>
        /\ ~metric[Own(c)].extraNil /\ metric[Own(c)].Extra = EmptyMap
        /\ pc[d] = "done" /\ ~metric[Own(d)].extraNil

\* The calls that take a step.
Stepping == {c \in Calls : pc'[c] # pc[c]}

(* C24 (Spec): no step of a call changes the transport it runs on (inner   *)
(* round tripper, metric, desc and update functions, name, bound header)   *)
(* or the timer; a step changes only the header's collection and the entry *)
(* of the stepping call, adds the entries parsed from its response, and    *)
(* leaves every other entry as it is. Every call therefore runs with the   *)
(* configuration the transport was made with.                              *)
StatelessDecorator ==
    /\ [](\A c \in Calls : tr[c] = Transport(New(baseOpts), callOpts[c]))
    /\ [][ /\ tr' = tr
           /\ timer' = timer
           /\ \A id \in DOMAIN metric :
                /\ id \in DOMAIN metric'
                /\ metric'[id] # metric[id] => (id[2] = 0 /\ id[1] \in Stepping)
           /\ \A id \in DOMAIN metric' \ DOMAIN metric : id[1] \in Stepping
           /\ \A r \in DOMAIN responses : responses'[r] = responses[r] ]_vars

WitnessStatelessDecorator ==
    /\ \A c \in Calls : pc[c] = "done" /\ tr[c] = Transport(New(baseOpts), callOpts[c])
    /\ tr[1].Timer.name = NameN
    /\ \E c, d \in Calls :
         /\ inner[c].err # NilErr
         /\ Succeeded(d) /\ Len(Carried(d)) > 0
    /\ \A c \in Calls : SourceIs(c, NameN)

\* The entries of ms that are among old, in the order of ms.
Kept(ms, old) == SelectSeq(ms, LAMBDA id : id \in Range(old))

(* C25 (SeqSpec): with the calls made one after the other, every entry     *)
(* that was in the collection when a call began is in it when the call has *)
(* returned, once, in the same order relative to the other earlier         *)
(* entries, and with the name, description and attributes it had; this     *)
(* holds for every step of a call, whether the call fails or succeeds and  *)
(* whether or not its response carries nested entries.                     *)
ExistingPreserved ==
    /\ [](\A c \in Calls : pc[c] # "idle" => Kept(Metrics, before[c]) = before[c])
    /\ [][ /\ Kept(Metrics', Metrics) = Metrics
           /\ \A id \in Range(Metrics) :
                (\A c \in Calls : pc'[c] # pc[c] => id # Own(c)) =>
                    /\ id \in DOMAIN metric'
                    /\ Contents(metric'[id]) = Contents(metric[id]) ]_vars

WitnessExistingPreserved ==
    \E c \in Calls :
        /\ pc[c] = "done" /\ Succeeded(c) /\ Len(Carried(c)) > 0
        /\ Len(before[c]) >= 3
        /\ Kept(Metrics, before[c]) = before[c]
        /\ Len(Metrics) > Len(before[c]) + 1
        /\ \E d \in Calls : d < c /\ Own(d) \in Range(before[c])

\* The entries of call c: the one it made and those parsed from its response.
EntriesOf(c) == {id \in DOMAIN metric : id[1] = c}

(* C26 (BindSpec): a transport records into the header of the context it   *)
(* was made with, whatever context the request carries: the entry of a     *)
(* call is added to that header's collection and so are the entries parsed *)
(* from its response; no entry of a call is ever in the collection of      *)
(* another header, also with calls of the two transports interleaved.      *)
CollectionBinding ==
    /\ [](\A h \in Headers : \A i \in 1..Len(Collection(h)) :
             tr[Collection(h)[i][1]].timing = h)
    /\ [][ \A c \in Calls : \A h \in Headers :
             tr[c].timing = h =>
                /\ (pc[c] = "idle" /\ pc'[c] = "created") =>
                      Own(c) \in Range(Collection(h)')
                /\ (pc[c] = "merging" /\ pc'[c] = "merged") =>
                      EntriesOf(c) \ {Own(c)} \subseteq Range(Collection(h)') ]_vars

WitnessCollectionBinding ==
    \E c, d \in Calls :
        /\ tr[c].timing = "h" /\ tr[d].timing = "h2"
        /\ req[c].Ctx = "h2"
        /\ pc[c] = "done" /\ pc[d] = "done"
        /\ Succeeded(c) /\ Len(Carried(c)) > 0
        /\ Succeeded(d) /\ Len(Carried(d)) > 0
        /\ Range(Metrics) = EntriesOf(c)
        /\ Range(Metrics2) = EntriesOf(d)

(* C27 (BindSpec): a call through a transport made from a context without  *)
(* a header does not fail in RoundTrip: it calls the inner round tripper   *)
(* once and returns what that returned.                                    *)
NoBoundCollection ==
    \A c \in Calls :
        tr[c].timing = NilHeader =>
            /\ pc[c] # "panicked"
            /\ pc[c] = "done" =>
                 /\ mockCalls[c] = <<req[c]>>
                 /\ ret[c] = [resp |-> IF inner[c].hasResp THEN c ELSE NilResp,
                              err |-> inner[c].err]

\* The attributes RoundTrip and the update functions of the tests write.
OwnAttributes(c) ==
    (IF tr[c].Timer.name # <<>> THEN {KeySource} ELSE {})
    \cup (IF inner[c].err # NilErr THEN {"error"} ELSE {"code"})
    \cup (IF tr[c].Timer.update = "BigSurprise" THEN {"big"} ELSE {})

(* C28 (CfgSpec): with calls running at the same time on one header, the   *)
(* entry of every call that has returned and is in the collection has the  *)
(* attributes of its own call and no other: the source of its own          *)
(* transport, and the error text or the status code of its own inner       *)
(* round trip.                                                             *)
AttributeOwnership ==
    \A c \in Calls :
        (pc[c] = "done" /\ Own(c) \in Range(Metrics)) =>
            LET x == metric[Own(c)].Extra
            IN /\ DOMAIN x = OwnAttributes(c)
               /\ SourceIs(c, tr[c].Timer.name)
               /\ inner[c].err # NilErr => x["error"] = ErrorText(inner[c].err)
               /\ inner[c].err = NilErr =>
                    /\ IsDecimal(x["code"])
                    /\ DecimalValue(x["code"]) = inner[c].response.StatusCode

WitnessAttributeOwnership ==
    \E c, d \in Calls :
        /\ d < c /\ pc[c] = "done" /\ pc[d] = "updated"
        /\ Own(c) \in Range(Metrics) /\ Own(d) \in Range(Metrics)
        /\ tr[c].Timer.name = NameN /\ tr[d].Timer.name = NameO
        /\ inner[c].err = NilErr /\ inner[d].err # NilErr
        /\ metric[Own(c)].Extra[KeySource] = NameN
        /\ metric[Own(d)].Extra[KeySource] = NameO
        /\ "code" \in DOMAIN metric[Own(c)].Extra
        /\ "error" \in DOMAIN metric[Own(d)].Extra

====
